---- MODULE Spec2Model ----
(***************************************************************************)
(* A model of the cql-stress integration-test harness (tools/):            *)
(*   - the scoped node provisioner  (util/scylla_docker.py and             *)
(*     test_with_scylla.py: scylla_docker, wait_until_scylla_responds),    *)
(*   - the stress-tool invoker      (util/cassandra_stress.py),            *)
(*   - the download cache of the reference tool (CassandraStress),         *)
(*   - the write-and-validate driver (test_cs_write_and_validate.py),      *)
(*   - the HDR log validator and the HDR logging scenario                  *)
(*     (test_hdr_logging.py).                                              *)
(* Each component has its own specification; the variables of the other    *)
(* components stay at their idle values.                                   *)
(***************************************************************************)
EXTENDS Integers, Sequences, FiniteSets, TLC

VARIABLES
    \* ---- node provisioner ----
    variant,            \* "compose" (util/scylla_docker.py) or "run" (test_with_scylla.py)
    teardown_behavior,  \* the policy argument
    max_attempts,       \* max_healthcheck_attempts
    ppc,                \* position in scylla_docker / wait_until_scylla_responds
    attempt_i,          \* the loop variable i of wait_until_scylla_responds
    success,            \* the success flag of scylla_docker
    exc,                \* the exception propagating out of the scope ("none" if none)
    wait_result,        \* how wait_until_scylla_responds ended ("none" while it has not)
    cmds,               \* the docker commands issued so far, in order
    body_outcome,       \* how the body of the with-block ended ("none" while it has not)
    last_outcome,       \* <<call, outcome>> of the last blocking call of the readiness loop
    \* ---- stress-tool invoker ----
    runtime_args,       \* a CSCliRuntimeArguments record
    apc,                \* "ready" or "built"
    mode,               \* which builder produced argv
    argv,               \* the argument vector built
    \* ---- write-and-validate driver ----
    wpc,                \* position in run() of the scenario under way
    keyspaces,          \* the Keyspaces pair generated
    invocations,        \* the subprocess invocations made so far, in order
    \* ---- download cache of the reference tool ----
    download_dir_exists,    \* DOWNLOAD_DIRECTORY_NAME exists
    cassandra_dir_exists,   \* os.path.exists(abs_cassandra_dir)
    cassandra_tar_exists,   \* os.path.exists(abs_cassandra_tar)
    cassandra_stress_version, \* the argument of the construction under way or made last
    cpc,                \* position in CassandraStress.__init__
    cresult,            \* how the construction made last ended
    cache_cmds,         \* the wget and tar commands issued so far, in order
    cmds_before,        \* how many of them were issued before that construction
    pre,                \* the cache as that construction found it (observation only)
    constructed,        \* number of constructions started
    installed_before,   \* an earlier construction completed successfully (observation only)
    \* ---- HDR log validator ----
    file_exists,        \* os.path.exists(file_path)
    n_lines,            \* len(lines) of the file
    header,             \* the first min(4, n_lines) lines
    expected_interval,  \* the expected_interval argument (tenths of a second)
    hpc,                \* position in check_hdr_file_valid
    row_i,              \* the loop variable i over data_rows
    last_timestamp,     \* None (<<>>) or <<timestamp>>
    hresult,            \* "none", "True" or "False"
    hreason,            \* the diagnostic of the failure
    cur_row,            \* the data row read last
    examined,           \* number of data rows read so far
    hist                \* what the rows read so far amount to (observation only)

provVars == <<variant, teardown_behavior, max_attempts, ppc, attempt_i, success,
              exc, wait_result, cmds, body_outcome, last_outcome>>
argsVars == <<runtime_args, apc, mode, argv>>
wvVars   == <<wpc, keyspaces, invocations>>
cacheVars == <<download_dir_exists, cassandra_dir_exists, cassandra_tar_exists,
               cassandra_stress_version, cpc, cresult, cache_cmds, cmds_before, pre,
               constructed, installed_before>>
hdrVars  == <<file_exists, n_lines, header, expected_interval, hpc, row_i,
              last_timestamp, hresult, hreason, cur_row, examined, hist>>
vars     == <<provVars, argsVars, wvVars, cacheVars, hdrVars>>

\* Python's None and a present value.
None == <<>>
Some(x) == <<x>>

\* Number of occurrences of x in the sequence s.
RECURSIVE Count(_, _)
Count(s, x) ==
    IF s = <<>> THEN 0
    ELSE (IF s[1] = x THEN 1 ELSE 0) + Count(Tail(s), x)

(***************************************************************************)
(* Bounds of the model.                                                    *)
(***************************************************************************)
MaxAttempts == 3

(***************************************************************************)
(* Node provisioner.                                                       *)
(***************************************************************************)
TeardownBehaviors == {"always", "on-success", "never"}
Variants == {"compose", "run"}

\* The command lines the two variants issue.
UpCmd(v)   == IF v = "compose" THEN "docker compose up -d --wait" ELSE "docker run -d"
StopCmd(v) == IF v = "compose" THEN "docker compose stop" ELSE "docker stop"
DownCmd(v) == IF v = "compose" THEN "docker compose down" ELSE "docker rm"
ReadyCmd   == "docker exec cqlsh"

TeardownCmds(v) == {StopCmd(v), DownCmd(v)}

\* for i in range(max_attempts): the loop runs its body for i < max_attempts.
RangeOffByOne(i, n) == i <= n
InRange(i, n) == i < n

\* The try/except of one readiness attempt: what the loop does with the
\* outcome of subprocess.run(..., check=True).
AttemptOutcomes == {"ok", "CalledProcessError", "FileNotFoundError", "KeyboardInterrupt"}
SwallowAll(outcome) ==
    IF outcome = "ok" THEN "return" ELSE "sleep"
AttemptHandler(outcome) ==
    IF outcome = "ok" THEN "return"
    ELSE IF outcome = "KeyboardInterrupt" THEN "raise"
    ELSE "sleep"

\* The finally block's decision.
TeardownIgnoresSuccess(behavior, succ) ==
    behavior \in {"always", "on-success"}
DoTeardown(behavior, succ) ==
    IF behavior = "always" THEN TRUE
    ELSE IF behavior = "on-success" THEN succ
    ELSE FALSE

\* docker compose up / docker run, check=True, before the try block: a failure
\* leaves the function without reaching the finally block.
ProvSetup ==
    /\ ppc = "start"
    /\ \E r \in {"ok", "CalledProcessError"} :
        /\ cmds' = Append(cmds, UpCmd(variant))
        /\ IF r = "ok"
           THEN /\ ppc' = IF variant = "run" THEN "wait" ELSE "body"
                /\ exc' = exc
           ELSE /\ ppc' = "done"
                /\ exc' = r
    /\ UNCHANGED <<variant, teardown_behavior, max_attempts, attempt_i, success,
                   wait_result, body_outcome, last_outcome>>
    /\ UNCHANGED <<argsVars, wvVars, cacheVars, hdrVars>>

\* One iteration of the for loop of wait_until_scylla_responds up to the end
\* of its try statement.
WaitAttempt ==
    /\ ppc = "wait"
    /\ InRange(attempt_i, max_attempts)
    /\ \E outcome \in AttemptOutcomes :
        /\ cmds' = Append(cmds, ReadyCmd)
        /\ last_outcome' = <<"attempt", outcome>>
        /\ LET h == AttemptHandler(outcome) IN
           /\ ppc' = CASE h = "return" -> "body"
                       [] h = "raise"  -> "finally"
                       [] OTHER        -> "sleep"
           /\ wait_result' = CASE h = "return" -> "returned"
                               [] h = "raise"  -> "KeyboardInterrupt"
                               [] OTHER        -> wait_result
           /\ exc' = IF h = "raise" THEN "KeyboardInterrupt" ELSE exc
    /\ UNCHANGED <<variant, teardown_behavior, max_attempts, attempt_i, success,
                   body_outcome>>
    /\ UNCHANGED <<argsVars, wvVars, cacheVars, hdrVars>>

\* time.sleep(5) in the bare except clause; an interrupt raised in the handler
\* leaves the function.
WaitSleep ==
    /\ ppc = "sleep"
    /\ \E r \in {"slept", "KeyboardInterrupt"} :
        /\ last_outcome' = <<"sleep", r>>
        /\ IF r = "slept"
           THEN /\ attempt_i' = attempt_i + 1
                /\ ppc' = "wait"
                /\ UNCHANGED <<wait_result, exc>>
           ELSE /\ ppc' = "finally"
                /\ wait_result' = "KeyboardInterrupt"
                /\ exc' = "KeyboardInterrupt"
                /\ UNCHANGED attempt_i
    /\ UNCHANGED <<variant, teardown_behavior, max_attempts, success, cmds,
                   body_outcome>>
    /\ UNCHANGED <<argsVars, wvVars, cacheVars, hdrVars>>

\* The loop is over: raise RuntimeError("Scylla didn't start responding ...").
WaitExhausted ==
    /\ ppc = "wait"
    /\ ~InRange(attempt_i, max_attempts)
    /\ wait_result' = "RuntimeError: didn't start responding"
    /\ exc' = "RuntimeError: didn't start responding"
    /\ ppc' = "finally"
    /\ UNCHANGED <<variant, teardown_behavior, max_attempts, attempt_i, success,
                   cmds, body_outcome, last_outcome>>
    /\ UNCHANGED <<argsVars, wvVars, cacheVars, hdrVars>>

\* The body of the with-block runs while the generator is suspended at yield;
\* when it ends normally the generator resumes and sets success = True.
ProvBody ==
    /\ ppc = "body"
    /\ \E r \in {"ok", "CalledProcessError", "KeyboardInterrupt"} :
        /\ body_outcome' = r
        /\ success' = IF r = "ok" THEN TRUE ELSE success
        /\ exc' = IF r = "ok" THEN exc ELSE r
    /\ ppc' = "finally"
    /\ UNCHANGED <<variant, teardown_behavior, max_attempts, attempt_i,
                   wait_result, cmds, last_outcome>>
    /\ UNCHANGED <<argsVars, wvVars, cacheVars, hdrVars>>

\* The finally block: stop, then down/rm, each with check=True.
ProvFinally ==
    /\ ppc = "finally"
    /\ IF DoTeardown(teardown_behavior, success)
       THEN \E r1, r2 \in {"ok", "CalledProcessError"} :
               /\ cmds' = IF r1 = "ok"
                          THEN cmds \o <<StopCmd(variant), DownCmd(variant)>>
                          ELSE Append(cmds, StopCmd(variant))
               /\ exc' = IF r1 = "ok" /\ r2 = "ok" THEN exc ELSE "CalledProcessError"
       ELSE UNCHANGED <<cmds, exc>>
    /\ ppc' = "done"
    /\ UNCHANGED <<variant, teardown_behavior, max_attempts, attempt_i, success,
                   wait_result, body_outcome, last_outcome>>
    /\ UNCHANGED <<argsVars, wvVars, cacheVars, hdrVars>>

ProvNext ==
    \/ ProvSetup
    \/ WaitAttempt
    \/ WaitSleep
    \/ WaitExhausted
    \/ ProvBody
    \/ ProvFinally

(***************************************************************************)
(* Observations on the provisioner.                                        *)
(***************************************************************************)
\* Number of readiness attempts made so far.
Attempts == Count(cmds, ReadyCmd)

\* A teardown command has been issued.
TeardownIssued == \E c \in TeardownCmds(variant) : Count(cmds, c) > 0

\* The container could not be started: the scope was never entered.
SetupFailed == ppc = "done" /\ body_outcome = "none" /\ wait_result = "none"

\* The scope was entered and has been left.
ScopeExited == ppc = "done" /\ ~SetupFailed

AttemptFailures == {"CalledProcessError", "FileNotFoundError"}

(***************************************************************************)
(* Stress-tool invoker (util/cassandra_stress.py).                         *)
(***************************************************************************)
MaxLogInterval == 3
MaxRand == 2

\* Python truthiness of an optional string: None and "" are false.
Truthy(opt) == opt # None /\ opt[1] # ""

WorkloadSizes == {100, 1000}
Concurrencies == {1, 4}
HdrLogFiles == {None, Some(""), Some("/tmp/cql-stress.hdr")}
Throttles == {None, Some("1000/s")}
NodeIps == {"127.0.0.1"}
Commands == {"write", "read"}
ProfileNames == {"blob.yaml", "text.yaml"}

CSCliRuntimeArguments ==
    [workload_size : WorkloadSizes, concurrency : Concurrencies,
     hdr_log_file : HdrLogFiles, log_interval : 1..MaxLogInterval,
     throttle : Throttles]

DEFAULT_RUNTIME_ARGUMENTS ==
    [workload_size |-> 100, concurrency |-> 1, hdr_log_file |-> None,
     log_interval |-> 1, throttle |-> None]

TEST_PROFILES_DIRECTORY == "tools/util/profiles"
DEFAULT_TEST_QUERY_NAME == "test_query"

\* os.path.join of a directory and a relative name.
PathJoin(dir, name) == dir \o "/" \o name

\* A builder whose rate clause never carries the throttle.
prepare_args_no_throttle(command, node_ip, keyspace, ra) ==
    LET args0 == <<command, "no-warmup", "n=" \o ToString(ra.workload_size),
                   "-node", node_ip>>
        args1 == args0 \o <<"-rate", "threads=" \o ToString(ra.concurrency)>>
        args2 == args1 \o <<"-schema", "keyspace=" \o keyspace>>
        log0  == <<"-log", "hdrfile=" \o ra.hdr_log_file[1]>>
        log_args == IF ra.log_interval # 1
                    THEN Append(log0, "interval=" \o ToString(ra.log_interval))
                    ELSE log0
    IN  IF Truthy(ra.hdr_log_file) THEN args2 \o log_args ELSE args2

\* prepare_args(command, node_ip, keyspace, runtime_args)
prepare_args(command, node_ip, keyspace, ra) ==
    LET args0 == <<command, "no-warmup", "n=" \o ToString(ra.workload_size),
                   "-node", node_ip>>
        rate0 == <<"threads=" \o ToString(ra.concurrency)>>
        rate_args == IF Truthy(ra.throttle)
                     THEN Append(rate0, "throttle=" \o ra.throttle[1])
                     ELSE rate0
        args1 == args0 \o (<<"-rate">> \o rate_args)
        args2 == args1 \o <<"-schema", "keyspace=" \o keyspace>>
        log0  == <<"-log", "hdrfile=" \o ra.hdr_log_file[1]>>
        log_args == IF ra.log_interval # 1
                    THEN Append(log0, "interval=" \o ToString(ra.log_interval))
                    ELSE log0
    IN  IF Truthy(ra.hdr_log_file) THEN args2 \o log_args ELSE args2

\* the module-level prepare_user_args(node_ip, profile_name, runtime_args)
prepare_user_args(node_ip, profile_name, ra) ==
    LET rate0 == <<"threads=" \o ToString(ra.concurrency)>>
        rate_args == IF Truthy(ra.throttle)
                     THEN Append(rate0, "throttle=" \o ra.throttle[1])
                     ELSE rate0
    IN  <<"user", "profile=" \o profile_name,
          "no-warmup", "n=" \o ToString(ra.workload_size),
          "-node", node_ip,
          "-rate">> \o rate_args

\* CSCliRunner.prepare_user_args(node_ip, profile_name, query_name, runtime_args)
CSCliRunner_prepare_user_args(node_ip, profile_name, query_name, ra) ==
    LET full_profile_name == PathJoin(TEST_PROFILES_DIRECTORY, profile_name)
        rate0 == <<"threads=" \o ToString(ra.concurrency)>>
        rate_args == IF Truthy(ra.throttle)
                     THEN Append(rate0, "throttle=" \o ra.throttle[1])
                     ELSE rate0
    IN  (<<"user", "profile=" \o full_profile_name, "ops(" \o query_name \o "=1)",
           "no-warmup", "n=" \o ToString(ra.workload_size),
           "-node", node_ip,
           "-rate">> \o rate_args)
        \o <<"-pop seq=1.." \o ToString(ra.workload_size)>>

\* The stress_cmd of the two runners.
CassandraStressCmd == <<"cassandra-download/cassandra-stress/bin/cassandra-stress">>
CqlStressCmd == <<"cql-stress-cassandra-stress">>

\* CSCliRunner.run: the argument vector handed to subprocess.run(check=True).
CSCliRunner_run_args(stress_cmd, command, node_ip, keyspace, ra) ==
    stress_cmd \o prepare_args(command, node_ip, keyspace, ra)

\* CSCliRunner.run_user: the argument vector handed to subprocess.run(check=True).
CSCliRunner_run_user_args(stress_cmd, node_ip, profile_name, ra) ==
    stress_cmd \o CSCliRunner_prepare_user_args(node_ip, profile_name,
                                                DEFAULT_TEST_QUERY_NAME, ra)

\* generate_random_keyspaces with r = random.randint(...) and now = strftime(...)
Timestamps == {"20240101_00h00m00s", "20240101_00h00m01s"}
generate_random_keyspaces(r, now) ==
    [ks_cassandra |-> "ks_cassandra_" \o ToString(r) \o "_" \o now,
     ks_cqlstress |-> "ks_cqlstress_" \o ToString(r) \o "_" \o now]

\* prepare_args applied to a keyspace-mode operation.
BuildArgs ==
    /\ apc = "ready"
    /\ \E command \in Commands, node_ip \in NodeIps, r \in 0..MaxRand, now \in Timestamps :
        argv' = prepare_args(command, node_ip,
                             generate_random_keyspaces(r, now).ks_cqlstress,
                             runtime_args)
    /\ mode' = "keyspace"
    /\ apc' = "built"
    /\ UNCHANGED runtime_args
    /\ UNCHANGED <<provVars, wvVars, cacheVars, hdrVars>>

\* The module-level prepare_user_args applied to a user-profile operation.
BuildUserArgs ==
    /\ apc = "ready"
    /\ \E node_ip \in NodeIps, profile_name \in ProfileNames :
        argv' = prepare_user_args(node_ip, profile_name, runtime_args)
    /\ mode' = "user"
    /\ apc' = "built"
    /\ UNCHANGED runtime_args
    /\ UNCHANGED <<provVars, wvVars, cacheVars, hdrVars>>

\* CSCliRunner.prepare_user_args applied to a user-profile operation, as
\* run_user calls it.
BuildRunnerUserArgs ==
    /\ apc = "ready"
    /\ \E node_ip \in NodeIps, profile_name \in ProfileNames :
        argv' = CSCliRunner_prepare_user_args(node_ip, profile_name,
                                              DEFAULT_TEST_QUERY_NAME, runtime_args)
    /\ mode' = "runner_user"
    /\ apc' = "built"
    /\ UNCHANGED runtime_args
    /\ UNCHANGED <<provVars, wvVars, cacheVars, hdrVars>>

ArgsNext ==
    \/ BuildArgs
    \/ BuildUserArgs
    \/ BuildRunnerUserArgs

(***************************************************************************)
(* Write-and-validate driver (test_cs_write_and_validate.py: run).         *)
(***************************************************************************)
\* subprocess.run without check=True: the exit status is not looked at.
InvokeUnchecked(args, status, next) ==
    /\ invocations' = Append(invocations, [args |-> args, status |-> status])
    /\ wpc' = next

\* One blocking subprocess.run(args, check=True) of CSCliRunner.run: the
\* invocation is recorded with its exit status; a non-zero status raises
\* CalledProcessError out of run().
Invoke(args, status, next) ==
    /\ invocations' = Append(invocations, [args |-> args, status |-> status])
    /\ wpc' = IF status = 0 THEN next ELSE "raised"

ExitStatuses == {0, 1}

\* keyspaces = generate_random_keyspaces()
WVGenerate ==
    /\ wpc = "start"
    /\ \E r \in 0..MaxRand, now \in Timestamps :
        keyspaces' = Some(generate_random_keyspaces(r, now))
    /\ wpc' = "write_cassandra"
    /\ UNCHANGED invocations
    /\ UNCHANGED <<provVars, argsVars, cacheVars, hdrVars>>

\* cs.run(command="write", keyspace=ks_cassandra)
WVWriteCassandra ==
    /\ wpc = "write_cassandra"
    /\ \E node_ip \in NodeIps, status \in ExitStatuses :
        Invoke(CSCliRunner_run_args(CassandraStressCmd, "write", node_ip,
                                    keyspaces[1].ks_cassandra, runtime_args),
               status, "read_cassandra")
    /\ UNCHANGED keyspaces
    /\ UNCHANGED <<provVars, argsVars, cacheVars, hdrVars>>

\* cql_stress.run(command="read", keyspace=ks_cassandra)
WVReadCassandra ==
    /\ wpc = "read_cassandra"
    /\ \E node_ip \in NodeIps, status \in ExitStatuses :
        Invoke(CSCliRunner_run_args(CqlStressCmd, "read", node_ip,
                                    keyspaces[1].ks_cassandra, runtime_args),
               status, "write_cqlstress")
    /\ UNCHANGED keyspaces
    /\ UNCHANGED <<provVars, argsVars, cacheVars, hdrVars>>

\* cql_stress.run(command="write", keyspace=ks_cqlstress)
WVWriteCqlStress ==
    /\ wpc = "write_cqlstress"
    /\ \E node_ip \in NodeIps, status \in ExitStatuses :
        Invoke(CSCliRunner_run_args(CqlStressCmd, "write", node_ip,
                                    keyspaces[1].ks_cqlstress, runtime_args),
               status, "read_cqlstress")
    /\ UNCHANGED keyspaces
    /\ UNCHANGED <<provVars, argsVars, cacheVars, hdrVars>>

\* cql_stress.run(command="read", keyspace=ks_cqlstress): the fourth call of
\* run() is made on cql_stress, as the third is.
WVReadCqlStress ==
    /\ wpc = "read_cqlstress"
    /\ \E node_ip \in NodeIps, status \in ExitStatuses :
        Invoke(CSCliRunner_run_args(CqlStressCmd, "read", node_ip,
                                    keyspaces[1].ks_cqlstress, runtime_args),
               status, "successful")
    /\ UNCHANGED keyspaces
    /\ UNCHANGED <<provVars, argsVars, cacheVars, hdrVars>>

WVNext ==
    \/ WVGenerate
    \/ WVWriteCassandra
    \/ WVReadCassandra
    \/ WVWriteCqlStress
    \/ WVReadCqlStress

(***************************************************************************)
(* Download cache of the reference tool (util/cassandra_stress.py:         *)
(* CassandraStress.__init__).  The cache is three paths: the download      *)
(* directory, the archive in it and the directory the archive unpacks to.  *)
(* A wget or tar that exits non-zero may have left its output behind; a    *)
(* tar that exits 0 has unpacked the archive to abs_cassandra_dir, as the  *)
(* constructor reports and as its stress_cmd requires.                     *)
(***************************************************************************)
MaxConstructions == 4

DEFAULT_CASSANDRA_STRESS_VERSION == "v3.17.3"
CassandraStressVersions == {DEFAULT_CASSANDRA_STRESS_VERSION, "v3.17.5"}
DOWNLOAD_DIRECTORY_NAME == "cassandra-download"

abs_cassandra_dir == PathJoin(DOWNLOAD_DIRECTORY_NAME, "cassandra-stress")
abs_cassandra_tar == PathJoin(DOWNLOAD_DIRECTORY_NAME, "cassandra-stress-bin.tar.gz")

cassandra_stress_url(version) ==
    "https://github.com/scylladb/cassandra-stress/releases/download/"
        \o version \o "/cassandra-stress-bin.tar.gz"

\* The two command lines of the constructor.
WgetCmd(version) ==
    <<"wget", "-c", "-P", DOWNLOAD_DIRECTORY_NAME, "-N", "--no-verbose",
      cassandra_stress_url(version)>>
TarCmd == <<"tar", "-xzf", abs_cassandra_tar, "--directory", DOWNLOAD_DIRECTORY_NAME>>

\* The cache as a construction finds or leaves it.
Cache(ddir, dir, tar) == [download_dir |-> ddir, dir |-> dir, tar |-> tar]
NoCache == Cache(FALSE, FALSE, FALSE)
CacheNow == Cache(download_dir_exists, cassandra_dir_exists, cassandra_tar_exists)

\* A constructor that extracts whether or not the tool is installed.
PlanIgnoresInstall(dir, tar) == IF ~tar THEN "fetch" ELSE "extract"

\* The two os.path.exists tests of the constructor: what it does next.
CachePlan(dir, tar) ==
    IF dir THEN "return"
    ELSE IF ~tar THEN "fetch" ELSE "extract"

\* CassandraStress(cassandra_stress_version) is called: up to the two
\* os.path.exists tests.  With the directory present it returns at once.
CSInitCheck ==
    /\ cpc = "ready"
    /\ constructed < MaxConstructions
    /\ \E v \in CassandraStressVersions : cassandra_stress_version' = v
    /\ constructed' = constructed + 1
    /\ installed_before' = (installed_before \/ cresult = "returned")
    /\ pre' = CacheNow
    /\ cmds_before' = Len(cache_cmds)
    /\ LET plan == CachePlan(cassandra_dir_exists, cassandra_tar_exists)
       IN  /\ cpc' = IF plan = "return" THEN "ready" ELSE plan
           /\ cresult' = IF plan = "return" THEN "returned" ELSE "running"
    /\ UNCHANGED <<download_dir_exists, cassandra_dir_exists, cassandra_tar_exists,
                   cache_cmds>>
    /\ UNCHANGED <<provVars, argsVars, wvVars, hdrVars>>

\* os.makedirs(exist_ok=True) and subprocess.run(wget, check=True).
CSInitFetch ==
    /\ cpc = "fetch"
    /\ download_dir_exists' = TRUE
    /\ \E status \in ExitStatuses :
        /\ cache_cmds' = Append(cache_cmds,
                                [args |-> WgetCmd(cassandra_stress_version),
                                 status |-> status])
        /\ IF status = 0
           THEN /\ cassandra_tar_exists' = TRUE
                /\ cpc' = "extract"
                /\ cresult' = "running"
           ELSE /\ cassandra_tar_exists' \in BOOLEAN
                /\ cpc' = "ready"
                /\ cresult' = "CalledProcessError"
    /\ UNCHANGED <<cassandra_dir_exists, cassandra_stress_version, cmds_before,
                   pre, constructed, installed_before>>
    /\ UNCHANGED <<provVars, argsVars, wvVars, hdrVars>>

\* subprocess.run(tar, check=True) and the return of the constructor.
CSInitExtract ==
    /\ cpc = "extract"
    /\ \E status \in ExitStatuses :
        /\ cache_cmds' = Append(cache_cmds, [args |-> TarCmd, status |-> status])
        /\ IF status = 0
           THEN /\ cassandra_dir_exists' = TRUE
                /\ cresult' = "returned"
           ELSE /\ cassandra_dir_exists' \in BOOLEAN
                /\ cresult' = "CalledProcessError"
    /\ cpc' = "ready"
    /\ UNCHANGED <<download_dir_exists, cassandra_tar_exists,
                   cassandra_stress_version, cmds_before, pre, constructed,
                   installed_before>>
    /\ UNCHANGED <<provVars, argsVars, wvVars, hdrVars>>

CacheNext ==
    \/ CSInitCheck
    \/ CSInitFetch
    \/ CSInitExtract

(***************************************************************************)
(* HDR log validator (test_hdr_logging.py: check_hdr_file_valid).          *)
(* Times are counted in tenths of a second: the tolerance of 0.1 s is 1.   *)
(* A line of the file is modelled, for the header check, as the set of     *)
(* expected header substrings it contains; a data row is the sequence of   *)
(* its comma-separated fields, the empty sequence being a blank line.      *)
(***************************************************************************)
MaxRows == 3
MaxInterval == 2
MaxNum == 6
MaxFields == 4

Tolerance == 1
MinLines == 5
MinFields == 4

expected_headers ==
    <<"Logged with Cql-stress", "#[StartTime:", "#[BaseTime:", "#[MaxValueDivisor:">>
NumHeaders == Len(expected_headers)

HeaderLines == {{}} \cup {{expected_headers[k]} : k \in 1..NumHeaders}
CanonicalHeader == [k \in 1..NumHeaders |-> {expected_headers[k]}]

\* The text of a field: a number written in decimal, or text that float()
\* rejects with ValueError.
Num(v) == [num |-> TRUE, val |-> v]
Text == [num |-> FALSE, val |-> 0]
NumFields == {Num(v) : v \in 0..MaxNum} \cup {Text}

\* The first field, as its characters.
TagPrefix == <<"T", "a", "g", "=">>
TagFields == {TagPrefix \o <<"w">>, <<"w">>}

\* str.startswith
StartsWith(str, prefix) ==
    /\ Len(str) >= Len(prefix)
    /\ SubSeq(str, 1, Len(prefix)) = prefix

\* The non-blank rows of k fields: a tag field, a timestamp, an interval
\* length, then the histogram data.
RowsOfLen(k) ==
    IF k = 1 THEN {<<t>> : t \in TagFields}
    ELSE IF k = 2 THEN {<<t, a>> : t \in TagFields, a \in NumFields}
    ELSE {<<t, a, b>> \o [j \in 1..(k - 3) |-> Text] :
              t \in TagFields, a \in NumFields, b \in NumFields}
BlankRow == <<>>
Rows == {BlankRow} \cup UNION {RowsOfLen(k) : k \in 1..MaxFields}

Abs(x) == IF x < 0 THEN -x ELSE x

\* The header loop (for i, expected in enumerate(expected_headers)), from its
\* k-th iteration on: "ok", or the diagnostic of the first failure.
RECURSIVE HeaderLoop(_, _, _)
HeaderLoop(k, lines, len_lines) ==
    IF k > NumHeaders THEN "ok"
    ELSE IF k > len_lines THEN "Missing header line"
    ELSE IF expected_headers[k] \notin lines[k] THEN "Header mismatch"
    ELSE HeaderLoop(k + 1, lines, len_lines)

\* A header check that looks for each expected substring in any header line.
HeadersAnyOrder(lines, len_lines) ==
    IF \A k \in 1..NumHeaders :
          \E j \in 1..Len(lines) : expected_headers[k] \in lines[j]
    THEN "ok" ELSE "Header mismatch"
CheckHeaders(lines, len_lines) == HeaderLoop(1, lines, len_lines)

\* check_hdr_file_valid up to the loop over the data rows: "rows" when the
\* loop is entered, else the value returned.
CheckFile(exists, len_lines, lines) ==
    IF ~exists THEN [ret |-> "False", why |-> "does not exist"]
    ELSE IF len_lines = 0 THEN [ret |-> "False", why |-> "is empty"]
    ELSE IF len_lines < MinLines THEN [ret |-> "False", why |-> "too few lines"]
    ELSE IF CheckHeaders(lines, len_lines) # "ok"
         THEN [ret |-> "False", why |-> CheckHeaders(lines, len_lines)]
    ELSE IF len_lines <= NumHeaders THEN [ret |-> "True", why |-> "No data rows found"]
    ELSE [ret |-> "rows", why |-> "none"]

\* One iteration of the loop over data_rows (for i, row in enumerate(data_rows)),
\* i counted from 0: "continue" with the new last_timestamp, or the "False"
\* returned.  parts[1] or parts[2] missing raises IndexError, which the outer
\* except Exception turns into False, as ValueError is by the inner one.
\* The same loop body with the drift check made against last_timestamp alone.
CheckRowNoAdvance(row, i, len_rows, last, interval) ==
    LET parts == row
        is_last_row == (i = len_rows - 1)
        Fail(why) == [ret |-> "False", why |-> why, last |-> last]
    IN  IF row = BlankRow THEN [ret |-> "continue", why |-> "none", last |-> last]
        ELSE IF ~is_last_row /\ Len(parts) < MinFields THEN Fail("Invalid data row format")
        ELSE IF ~StartsWith(parts[1], TagPrefix) THEN Fail("Missing tag in row")
        ELSE IF Len(parts) < 2 THEN Fail("IndexError")
        ELSE IF ~parts[2].num THEN Fail("Invalid numeric data")
        ELSE IF Len(parts) < 3 THEN Fail("IndexError")
        ELSE IF ~parts[3].num THEN Fail("Invalid numeric data")
        ELSE
          LET timestamp == parts[2].val
              interval_length == parts[3].val
          IN  IF i = 0 /\ (\/ timestamp < interval - Tolerance
                           \/ timestamp > interval + Tolerance)
              THEN Fail("First timestamp is not close to expected interval")
              ELSE IF /\ last # None
                      /\ ~is_last_row
                      /\ Abs(timestamp - last[1]) > Tolerance
              THEN Fail("Timestamp does not match expected")
              ELSE IF ~is_last_row /\ Abs(interval_length - interval) > Tolerance
              THEN Fail("Interval length is not close to expected")
              ELSE [ret |-> "continue", why |-> "none", last |-> Some(timestamp)]

\* The loop body of check_hdr_file_valid.
CheckRow(row, i, len_rows, last, interval) ==
    LET parts == row
        is_last_row == (i = len_rows - 1)
        Fail(why) == [ret |-> "False", why |-> why, last |-> last]
    IN  IF row = BlankRow THEN [ret |-> "continue", why |-> "none", last |-> last]
        ELSE IF ~is_last_row /\ Len(parts) < MinFields THEN Fail("Invalid data row format")
        ELSE IF ~StartsWith(parts[1], TagPrefix) THEN Fail("Missing tag in row")
        ELSE IF Len(parts) < 2 THEN Fail("IndexError")
        ELSE IF ~parts[2].num THEN Fail("Invalid numeric data")
        ELSE IF Len(parts) < 3 THEN Fail("IndexError")
        ELSE IF ~parts[3].num THEN Fail("Invalid numeric data")
        ELSE
          LET timestamp == parts[2].val
              interval_length == parts[3].val
          IN  IF i = 0 /\ (\/ timestamp < interval - Tolerance
                           \/ timestamp > interval + Tolerance)
              THEN Fail("First timestamp is not close to expected interval")
              ELSE IF /\ last # None
                      /\ ~is_last_row
                      /\ Abs(timestamp - (last[1] + interval)) > Tolerance
              THEN Fail("Timestamp does not match expected")
              ELSE IF ~is_last_row /\ Abs(interval_length - interval) > Tolerance
              THEN Fail("Interval length is not close to expected")
              ELSE [ret |-> "continue", why |-> "none", last |-> Some(timestamp)]

\* What the rows read so far amount to, in the words of the specification
\* (observation only: no action's guard reads it).
\*   leading_blank the first data line is blank
\*   nonblank   number of non-blank rows read
\*   prev       timestamp of the previous non-blank row
\*   wellformed every non-blank row has the tag, at least 4 fields and numeric
\*              timestamp and interval length
\*   cadence    the first non-blank row's timestamp is within the tolerance of
\*              the expected interval, and every later non-blank row that is
\*              not the last data row is within the tolerance of the previous
\*              non-blank row's timestamp plus the expected interval
\*   synthetic  every row is the k-th row of the synthetic valid log: tag, at
\*              least 4 fields, interval length equal to the expected interval,
\*              timestamp k times the expected interval
WellFormedRow(row) ==
    /\ Len(row) >= MinFields
    /\ StartsWith(row[1], TagPrefix)
    /\ row[2].num
    /\ row[3].num

NoHistory ==
    [leading_blank |-> FALSE, nonblank |-> 0, prev |-> None, wellformed |-> TRUE,
     cadence |-> TRUE, synthetic |-> TRUE]

Observe(h, row, i, len_rows, interval) ==
    IF row = BlankRow
    THEN [h EXCEPT !.synthetic = FALSE, !.leading_blank = (@ \/ i = 0)]
    ELSE IF ~WellFormedRow(row)
    THEN [h EXCEPT !.nonblank = @ + 1, !.wellformed = FALSE, !.synthetic = FALSE]
    ELSE
      LET ts == row[2].val
          on_cadence ==
              IF h.nonblank = 0 THEN Abs(ts - interval) <= Tolerance
              ELSE IF i # len_rows - 1 /\ h.prev # None
                   THEN Abs(ts - (h.prev[1] + interval)) <= Tolerance
              ELSE TRUE
      IN  [leading_blank |-> h.leading_blank,
           nonblank |-> h.nonblank + 1,
           prev |-> Some(ts),
           wellformed |-> h.wellformed,
           cadence |-> h.cadence /\ on_cadence,
           synthetic |-> /\ h.synthetic
                         /\ row[3].val = interval
                         /\ ts = (i + 1) * interval]

\* data_rows = lines[4:]
LenDataRows == n_lines - NumHeaders

\* check_hdr_file_valid from its entry to the loop over the data rows.
HdrOpen ==
    /\ hpc = "start"
    /\ LET r == CheckFile(file_exists, n_lines, header) IN
        /\ hpc' = IF r.ret = "rows" THEN "rows" ELSE "returned"
        /\ hresult' = IF r.ret = "rows" THEN hresult ELSE r.ret
        /\ hreason' = r.why
    /\ UNCHANGED <<file_exists, n_lines, header, expected_interval, row_i,
                   last_timestamp, cur_row, examined, hist>>
    /\ UNCHANGED <<provVars, argsVars, wvVars, cacheVars>>

\* One iteration of the loop over the data rows, the row being read from the
\* file; after the last iteration the function returns True.
HdrRow ==
    /\ hpc = "rows"
    /\ row_i < LenDataRows
    /\ \E row \in Rows :
        LET r == CheckRow(row, row_i, LenDataRows, last_timestamp, expected_interval) IN
        /\ cur_row' = row
        /\ examined' = examined + 1
        /\ hist' = Observe(hist, row, row_i, LenDataRows, expected_interval)
        /\ last_timestamp' = r.last
        /\ hreason' = r.why
        /\ IF r.ret = "False"
           THEN /\ hresult' = "False"
                /\ hpc' = "returned"
                /\ UNCHANGED row_i
           ELSE /\ row_i' = row_i + 1
                /\ hresult' = IF row_i + 1 = LenDataRows THEN "True" ELSE hresult
                /\ hpc' = IF row_i + 1 = LenDataRows THEN "returned" ELSE "rows"
    /\ UNCHANGED <<file_exists, n_lines, header, expected_interval>>
    /\ UNCHANGED <<provVars, argsVars, wvVars, cacheVars>>

HdrNext ==
    \/ HdrOpen
    \/ HdrRow

(***************************************************************************)
(* HDR logging scenario (test_hdr_logging.py: run).  It runs one write by  *)
(* cql-stress and then check_hdr_file_valid on runtime_args.hdr_log_file   *)
(* with expected_interval = runtime_args.log_interval, a number of         *)
(* seconds, which the validator model counts in tenths.                    *)
(***************************************************************************)
TenthsPerSecond == 10

\* The header lines of a log the tool has left: the first lines of the
\* canonical header, or lines holding none of the expected texts.
WrittenHeaders(len_lines) ==
    LET k == IF len_lines < NumHeaders THEN len_lines ELSE NumHeaders
    IN  {[j \in 1..k |-> CanonicalHeader[j]], [j \in 1..k |-> {}]}

\* keyspaces = generate_random_keyspaces()
HdrRunGenerate ==
    /\ wpc = "hdr_start"
    /\ \E r \in 0..MaxRand, now \in Timestamps :
        keyspaces' = Some(generate_random_keyspaces(r, now))
    /\ wpc' = "hdr_write"
    /\ UNCHANGED invocations
    /\ UNCHANGED <<provVars, argsVars, cacheVars, hdrVars>>

\* cql_stress.run(command="write", keyspace=ks_cqlstress).  A run that
\* exits 0 leaves at hdr_file whatever log it wrote (none without a path).
HdrRunWrite ==
    /\ wpc = "hdr_write"
    /\ \E node_ip \in NodeIps, status \in ExitStatuses :
        /\ Invoke(CSCliRunner_run_args(CqlStressCmd, "write", node_ip,
                                       keyspaces[1].ks_cqlstress, runtime_args),
                  status, "hdr_validate")
        /\ IF status = 0 /\ Truthy(runtime_args.hdr_log_file)
           THEN /\ file_exists' \in BOOLEAN
                /\ n_lines' \in (IF file_exists' THEN 0..(NumHeaders + MaxRows) ELSE {0})
                /\ header' \in WrittenHeaders(n_lines')
           ELSE UNCHANGED <<file_exists, n_lines, header>>
    /\ UNCHANGED keyspaces
    /\ UNCHANGED <<expected_interval, hpc, row_i, last_timestamp, hresult, hreason,
                   cur_row, examined, hist>>
    /\ UNCHANGED <<provVars, argsVars, cacheVars>>

\* check_hdr_file_valid(hdr_file, expected_interval=runtime_args.log_interval)
\* is called; os.path.exists(None) raises TypeError out of run().
HdrRunValidate ==
    /\ wpc = "hdr_validate"
    /\ hpc = "idle"
    /\ IF runtime_args.hdr_log_file = None
       THEN /\ wpc' = "raised"
            /\ UNCHANGED <<hpc, expected_interval>>
       ELSE /\ hpc' = "start"
            /\ expected_interval' = TenthsPerSecond * runtime_args.log_interval
            /\ UNCHANGED wpc
    /\ UNCHANGED <<keyspaces, invocations>>
    /\ UNCHANGED <<file_exists, n_lines, header, row_i, last_timestamp, hresult,
                   hreason, cur_row, examined, hist>>
    /\ UNCHANGED <<provVars, argsVars, cacheVars>>

\* check_hdr_file_valid has returned: RuntimeError("HDR log test failed") on
\* False, the success report on True.
HdrRunReport ==
    /\ wpc = "hdr_validate"
    /\ hpc = "returned"
    /\ wpc' = IF hresult = "True" THEN "successful" ELSE "raised"
    /\ UNCHANGED <<keyspaces, invocations>>
    /\ UNCHANGED <<provVars, argsVars, cacheVars, hdrVars>>

HdrRunNext ==
    \/ HdrRunGenerate
    \/ HdrRunWrite
    \/ HdrRunValidate
    \/ HdrRunReport
    \/ HdrOpen
    \/ HdrRow

\* Either scenario.
ScenarioNext ==
    \/ WVNext
    \/ HdrRunNext

(***************************************************************************)
(* Initial states and specifications.  Each specification runs one         *)
(* component; the variables of the others hold their idle values.          *)
(***************************************************************************)
\* The provisioner is entered with any policy, variant and attempt limit.
InitProv ==
    /\ variant \in Variants
    /\ teardown_behavior \in TeardownBehaviors
    /\ max_attempts \in 0..MaxAttempts
    /\ ppc = "start"
    /\ attempt_i = 0
    /\ success = FALSE
    /\ exc = "none"
    /\ wait_result = "none"
    /\ cmds = <<>>
    /\ body_outcome = "none"
    /\ last_outcome = <<"none", "none">>
    \* the other components are idle
    /\ runtime_args = DEFAULT_RUNTIME_ARGUMENTS
    /\ apc = "idle"
    /\ mode = "none"
    /\ argv = <<>>
    /\ wpc = "idle"
    /\ keyspaces = None
    /\ invocations = <<>>
    /\ file_exists = FALSE
    /\ n_lines = 0
    /\ header = <<>>
    /\ expected_interval = 1
    /\ hpc = "idle"
    /\ row_i = 0
    /\ last_timestamp = None
    /\ hresult = "none"
    /\ hreason = "none"
    /\ cur_row = BlankRow
    /\ examined = 0
    /\ hist = NoHistory
    /\ download_dir_exists = FALSE
    /\ cassandra_dir_exists = FALSE
    /\ cassandra_tar_exists = FALSE
    /\ cassandra_stress_version = DEFAULT_CASSANDRA_STRESS_VERSION
    /\ cpc = "idle"
    /\ cresult = "none"
    /\ cache_cmds = <<>>
    /\ cmds_before = 0
    /\ pre = NoCache
    /\ constructed = 0
    /\ installed_before = FALSE

\* Any runtime arguments are handed to the argument builders.
InitArgs ==
    /\ runtime_args \in CSCliRuntimeArguments
    /\ apc = "ready"
    /\ mode = "none"
    /\ argv = <<>>
    \* the other components are idle
    /\ variant = "compose"
    /\ teardown_behavior = "never"
    /\ max_attempts = 0
    /\ ppc = "idle"
    /\ attempt_i = 0
    /\ success = FALSE
    /\ exc = "none"
    /\ wait_result = "none"
    /\ cmds = <<>>
    /\ body_outcome = "none"
    /\ last_outcome = <<"none", "none">>
    /\ wpc = "idle"
    /\ keyspaces = None
    /\ invocations = <<>>
    /\ file_exists = FALSE
    /\ n_lines = 0
    /\ header = <<>>
    /\ expected_interval = 1
    /\ hpc = "idle"
    /\ row_i = 0
    /\ last_timestamp = None
    /\ hresult = "none"
    /\ hreason = "none"
    /\ cur_row = BlankRow
    /\ examined = 0
    /\ hist = NoHistory
    /\ download_dir_exists = FALSE
    /\ cassandra_dir_exists = FALSE
    /\ cassandra_tar_exists = FALSE
    /\ cassandra_stress_version = DEFAULT_CASSANDRA_STRESS_VERSION
    /\ cpc = "idle"
    /\ cresult = "none"
    /\ cache_cmds = <<>>
    /\ cmds_before = 0
    /\ pre = NoCache
    /\ constructed = 0
    /\ installed_before = FALSE

\* The driver is entered with any runtime arguments.
InitWV ==
    /\ wpc = "start"
    /\ keyspaces = None
    /\ invocations = <<>>
    /\ runtime_args \in CSCliRuntimeArguments
    /\ apc = "idle"
    /\ mode = "none"
    /\ argv = <<>>
    \* the other components are idle
    /\ variant = "compose"
    /\ teardown_behavior = "never"
    /\ max_attempts = 0
    /\ ppc = "idle"
    /\ attempt_i = 0
    /\ success = FALSE
    /\ exc = "none"
    /\ wait_result = "none"
    /\ cmds = <<>>
    /\ body_outcome = "none"
    /\ last_outcome = <<"none", "none">>
    /\ file_exists = FALSE
    /\ n_lines = 0
    /\ header = <<>>
    /\ expected_interval = 1
    /\ hpc = "idle"
    /\ row_i = 0
    /\ last_timestamp = None
    /\ hresult = "none"
    /\ hreason = "none"
    /\ cur_row = BlankRow
    /\ examined = 0
    /\ hist = NoHistory
    /\ download_dir_exists = FALSE
    /\ cassandra_dir_exists = FALSE
    /\ cassandra_tar_exists = FALSE
    /\ cassandra_stress_version = DEFAULT_CASSANDRA_STRESS_VERSION
    /\ cpc = "idle"
    /\ cresult = "none"
    /\ cache_cmds = <<>>
    /\ cmds_before = 0
    /\ pre = NoCache
    /\ constructed = 0
    /\ installed_before = FALSE

\* The runtime arguments the scenarios are entered with: every logging
\* configuration, the rate settings being the defaults.
ScenarioRuntimeArguments ==
    {ra \in CSCliRuntimeArguments :
        /\ ra.workload_size = DEFAULT_RUNTIME_ARGUMENTS.workload_size
        /\ ra.concurrency = DEFAULT_RUNTIME_ARGUMENTS.concurrency
        /\ ra.throttle = DEFAULT_RUNTIME_ARGUMENTS.throttle}

\* Either scenario is entered.
InitScenarios ==
    /\ wpc \in {"start", "hdr_start"}
    /\ keyspaces = None
    /\ invocations = <<>>
    /\ runtime_args \in ScenarioRuntimeArguments
    /\ apc = "idle"
    /\ mode = "none"
    /\ argv = <<>>
    \* the other components are idle
    /\ variant = "compose"
    /\ teardown_behavior = "never"
    /\ max_attempts = 0
    /\ ppc = "idle"
    /\ attempt_i = 0
    /\ success = FALSE
    /\ exc = "none"
    /\ wait_result = "none"
    /\ cmds = <<>>
    /\ body_outcome = "none"
    /\ last_outcome = <<"none", "none">>
    /\ file_exists = FALSE
    /\ n_lines = 0
    /\ header = <<>>
    /\ expected_interval = 1
    /\ hpc = "idle"
    /\ row_i = 0
    /\ last_timestamp = None
    /\ hresult = "none"
    /\ hreason = "none"
    /\ cur_row = BlankRow
    /\ examined = 0
    /\ hist = NoHistory
    /\ download_dir_exists = FALSE
    /\ cassandra_dir_exists = FALSE
    /\ cassandra_tar_exists = FALSE
    /\ cassandra_stress_version = DEFAULT_CASSANDRA_STRESS_VERSION
    /\ cpc = "idle"
    /\ cresult = "none"
    /\ cache_cmds = <<>>
    /\ cmds_before = 0
    /\ pre = NoCache
    /\ constructed = 0
    /\ installed_before = FALSE

\* The validator is called on any file and expected interval.
InitHdr ==
    /\ file_exists \in BOOLEAN
    /\ n_lines \in 0..(NumHeaders + MaxRows)
    /\ file_exists = FALSE => n_lines = 0
    /\ header \in [1..(IF n_lines < NumHeaders THEN n_lines ELSE NumHeaders) -> HeaderLines]
    /\ expected_interval \in 1..MaxInterval
    /\ hpc = "start"
    /\ row_i = 0
    /\ last_timestamp = None
    /\ hresult = "none"
    /\ hreason = "none"
    /\ cur_row = BlankRow
    /\ examined = 0
    /\ hist = NoHistory
    \* the other components are idle
    /\ variant = "compose"
    /\ teardown_behavior = "never"
    /\ max_attempts = 0
    /\ ppc = "idle"
    /\ attempt_i = 0
    /\ success = FALSE
    /\ exc = "none"
    /\ wait_result = "none"
    /\ cmds = <<>>
    /\ body_outcome = "none"
    /\ last_outcome = <<"none", "none">>
    /\ runtime_args = DEFAULT_RUNTIME_ARGUMENTS
    /\ apc = "idle"
    /\ mode = "none"
    /\ argv = <<>>
    /\ wpc = "idle"
    /\ keyspaces = None
    /\ invocations = <<>>
    /\ download_dir_exists = FALSE
    /\ cassandra_dir_exists = FALSE
    /\ cassandra_tar_exists = FALSE
    /\ cassandra_stress_version = DEFAULT_CASSANDRA_STRESS_VERSION
    /\ cpc = "idle"
    /\ cresult = "none"
    /\ cache_cmds = <<>>
    /\ cmds_before = 0
    /\ pre = NoCache
    /\ constructed = 0
    /\ installed_before = FALSE

\* The first construction finds the cache in any state: nothing in the
\* download directory without the directory itself.
InitCache ==
    /\ download_dir_exists \in BOOLEAN
    /\ cassandra_dir_exists \in BOOLEAN
    /\ cassandra_tar_exists \in BOOLEAN
    /\ (cassandra_dir_exists \/ cassandra_tar_exists) => download_dir_exists
    /\ cassandra_stress_version = DEFAULT_CASSANDRA_STRESS_VERSION
    /\ cpc = "ready"
    /\ cresult = "none"
    /\ cache_cmds = <<>>
    /\ cmds_before = 0
    /\ pre = CacheNow
    /\ constructed = 0
    /\ installed_before = FALSE
    \* the other components are idle
    /\ variant = "compose"
    /\ teardown_behavior = "never"
    /\ max_attempts = 0
    /\ ppc = "idle"
    /\ attempt_i = 0
    /\ success = FALSE
    /\ exc = "none"
    /\ wait_result = "none"
    /\ cmds = <<>>
    /\ body_outcome = "none"
    /\ last_outcome = <<"none", "none">>
    /\ runtime_args = DEFAULT_RUNTIME_ARGUMENTS
    /\ apc = "idle"
    /\ mode = "none"
    /\ argv = <<>>
    /\ wpc = "idle"
    /\ keyspaces = None
    /\ invocations = <<>>
    /\ file_exists = FALSE
    /\ n_lines = 0
    /\ header = <<>>
    /\ expected_interval = 1
    /\ hpc = "idle"
    /\ row_i = 0
    /\ last_timestamp = None
    /\ hresult = "none"
    /\ hreason = "none"
    /\ cur_row = BlankRow
    /\ examined = 0
    /\ hist = NoHistory

SpecProv == InitProv /\ [][ProvNext]_vars

\* The provisioner is sequential code: a step that can be taken is taken.
FairProv == InitProv /\ [][ProvNext]_vars /\ WF_vars(ProvNext)

SpecArgs == InitArgs /\ [][ArgsNext]_vars

SpecWV == InitWV /\ [][WVNext]_vars

SpecHdr == InitHdr /\ [][HdrNext]_vars

SpecCache == InitCache /\ [][CacheNext]_vars

SpecScenarios == InitScenarios /\ [][ScenarioNext]_vars

(***************************************************************************)
(* The claims about the node provisioner.                                  *)
(***************************************************************************)
\* C1: teardown commands are issued only at scope exit, at most once per
\* scope, and, once the scope has been left, they have been issued if and
\* only if the policy is "always", or it is "on-success" and the body
\* completed without error.
C1_TeardownPolicy ==
    /\ \A c \in TeardownCmds(variant) : Count(cmds, c) <= 1
    /\ TeardownIssued => ScopeExited
    /\ ScopeExited =>
        (TeardownIssued <=>
            \/ teardown_behavior = "always"
            \/ teardown_behavior = "on-success" /\ body_outcome = "ok")

\* C1 witness: with "on-success" the body raised, the scope was left and no
\* teardown command was issued.
C1_Witness ==
    /\ ScopeExited
    /\ teardown_behavior = "on-success"
    /\ body_outcome = "CalledProcessError"
    /\ ~TeardownIssued

\* C3: wait_until_scylla_responds makes at most max_attempts attempts, makes
\* none after it has returned or raised, returns at the first attempt that
\* succeeds, raises the exhausted-retries error only after exactly
\* max_attempts attempts that all failed, and always ends.
C3_BoundedPolling ==
    /\ [](Attempts <= max_attempts)
    /\ [](wait_result = "returned" =>
            /\ last_outcome = <<"attempt", "ok">>
            /\ Attempts = attempt_i + 1)
    /\ [](wait_result = "RuntimeError: didn't start responding" =>
            /\ Attempts = max_attempts
            /\ attempt_i = max_attempts
            /\ last_outcome[2] # "ok")
    /\ [][wait_result # "none" => Attempts' = Attempts /\ wait_result' = wait_result]_vars
    /\ (variant = "run" => <>(wait_result # "none" \/ SetupFailed))

\* C3 witness: every one of the max_attempts >= 2 attempts failed and the
\* exhausted-retries error was raised.
C3_Witness ==
    /\ wait_result = "RuntimeError: didn't start responding"
    /\ max_attempts >= 2
    /\ Attempts = max_attempts

\* C4: an interrupt during a readiness attempt or during the backoff sleep
\* leaves wait_until_scylla_responds at once as KeyboardInterrupt, with no
\* further attempt and never as the exhausted-retries error; any other
\* failure of an attempt is swallowed and followed by the backoff, after
\* which the loop goes on.
C4_InterruptPropagates ==
    /\ [](last_outcome[2] = "KeyboardInterrupt" =>
            /\ wait_result = "KeyboardInterrupt"
            /\ ppc \in {"finally", "done"})
    /\ [][wait_result = "KeyboardInterrupt" =>
            /\ wait_result' = "KeyboardInterrupt"
            /\ Attempts' = Attempts]_vars
    /\ [](last_outcome[1] = "attempt" /\ last_outcome[2] \in AttemptFailures =>
            /\ ppc = "sleep"
            /\ wait_result = "none"
            /\ exc = "none")
    /\ [][ppc = "sleep" /\ last_outcome' = <<"sleep", "slept">> =>
            /\ ppc' = "wait"
            /\ attempt_i' = attempt_i + 1
            /\ wait_result' = "none"]_vars

\* C4 witness: the interrupt arrived during the backoff sleep after a failed
\* attempt and left the function.
C4_Witness ==
    /\ last_outcome = <<"sleep", "KeyboardInterrupt">>
    /\ wait_result = "KeyboardInterrupt"
    /\ Attempts >= 2

(***************************************************************************)
(* The claims about the write-and-validate driver.                         *)
(***************************************************************************)
\* What an invocation's argument vector says: the executable, the command
\* verb and the schema clause.
ToolOf(inv) == inv.args[1]
CommandOf(inv) == inv.args[2]
SchemaOf(inv) ==
    LET j == CHOOSE k \in 1..Len(inv.args) : inv.args[k] = "-schema"
    IN  inv.args[j + 1]
Summary(invs) == [j \in 1..Len(invs) |-> <<ToolOf(invs[j]), CommandOf(invs[j]), SchemaOf(invs[j])>>]

\* The four invocations the driver is said to make.
CrossValidationOrder(ks) ==
    << <<CassandraStressCmd[1], "write", "keyspace=" \o ks.ks_cassandra>>,
       <<CqlStressCmd[1],       "read",  "keyspace=" \o ks.ks_cassandra>>,
       <<CqlStressCmd[1],       "write", "keyspace=" \o ks.ks_cqlstress>>,
       <<CassandraStressCmd[1], "read",  "keyspace=" \o ks.ks_cqlstress>> >>

\* C2: the invocations made are, in this order, cassandra-stress writing K1,
\* cql-stress reading K1, cql-stress writing K2, cassandra-stress reading K2
\* (all four in a successful run); every read of a keyspace is made by the
\* tool that did not write it and after a write of it that exited with 0.
C2_CrossValidation ==
    keyspaces # None =>
        LET sum == Summary(invocations)
            want == CrossValidationOrder(keyspaces[1])
        IN  /\ Len(sum) <= Len(want)
            /\ sum = SubSeq(want, 1, Len(sum))
            /\ wpc = "successful" => sum = want
            /\ \A j \in 1..Len(sum) :
                  sum[j][2] = "read" =>
                      \E k \in 1..(j - 1) :
                          /\ sum[k][2] = "write"
                          /\ sum[k][3] = sum[j][3]
                          /\ sum[k][1] # sum[j][1]
                          /\ invocations[k].status = 0

(***************************************************************************)
(* The claims about the argument builders.                                 *)
(***************************************************************************)
Range(seq) == {seq[j] : j \in 1..Len(seq)}

\* C10: once an argument vector is built, in keyspace mode and in
\* user-profile mode alike: with an HDR log path configured it holds
\* "-log", "hdrfile=<path>", followed by "interval=<log_interval>" exactly
\* when log_interval is not 1; with none configured it holds no "-log".
C10_LoggingClause ==
    apc = "built" =>
        IF Truthy(runtime_args.hdr_log_file)
        THEN \E j \in 1..(Len(argv) - 1) :
                /\ argv[j] = "-log"
                /\ argv[j + 1] = "hdrfile=" \o runtime_args.hdr_log_file[1]
                /\ IF runtime_args.log_interval = 1
                   THEN \A n \in 1..MaxLogInterval :
                            ("interval=" \o ToString(n)) \notin Range(argv)
                   ELSE /\ j + 2 <= Len(argv)
                        /\ argv[j + 2] = "interval=" \o ToString(runtime_args.log_interval)
        ELSE "-log" \notin Range(argv)

\* The same statement for keyspace mode alone (what prepare_args does).
KeyspaceModeLoggingClause == mode = "keyspace" => C10_LoggingClause

\* The throttle= elements a valid RuntimeArguments can produce.
ThrottleClauses == {"throttle=" \o t[1] : t \in Throttles \ {None}}

\* C11: once an argument vector is built, by prepare_args or by either
\* prepare_user_args: it holds "-rate" exactly once, the element after it is
\* "threads=<concurrency>" and is the only threads= element, and the element
\* after that is "throttle=<throttle>" exactly when a throttle is set; with
\* none set the vector holds no throttle= element at all.
C11_RateClause ==
    apc = "built" =>
        /\ Count(argv, "-rate") = 1
        /\ \E j \in 1..(Len(argv) - 1) :
              /\ argv[j] = "-rate"
              /\ argv[j + 1] = "threads=" \o ToString(runtime_args.concurrency)
              /\ \A c \in Concurrencies :
                    Count(argv, "threads=" \o ToString(c)) =
                        (IF c = runtime_args.concurrency THEN 1 ELSE 0)
              /\ IF Truthy(runtime_args.throttle)
                 THEN /\ j + 2 <= Len(argv)
                      /\ argv[j + 2] = "throttle=" \o runtime_args.throttle[1]
                      /\ \A t \in ThrottleClauses :
                            Count(argv, t) = (IF t = argv[j + 2] THEN 1 ELSE 0)
                 ELSE \A t \in ThrottleClauses : t \notin Range(argv)

\* A user-profile vector built by CSCliRunner.prepare_user_args with a
\* throttle set: its rate clause carries the throttle.
C11_Witness ==
    /\ apc = "built"
    /\ mode = "runner_user"
    /\ Truthy(runtime_args.throttle)
    /\ runtime_args.hdr_log_file # None
    /\ ("throttle=" \o runtime_args.throttle[1]) \in Range(argv)

(***************************************************************************)
(* The claims about the download cache.                                    *)
(***************************************************************************)
\* The commands of the construction under way or made last, by name.
IssuedNow ==
    [j \in 1..(Len(cache_cmds) - cmds_before) |-> cache_cmds[cmds_before + j].args[1]]

\* That construction has ended (returned or raised).
ConstructionEnded == constructed >= 1 /\ cpc = "ready"

\* C12: a construction that finds the target directory issues neither wget
\* nor tar; one that finds no directory but the archive issues tar and no
\* wget; one that finds neither issues wget first and, the wget having
\* exited 0, tar after it (a failed wget raises out of the constructor).
\* Every construction made after one that completed successfully issues
\* nothing, returns, and leaves the cache as it found it.
C12_CacheIdempotent ==
    constructed >= 1 =>
        /\ pre.dir => IssuedNow = <<>>
        /\ (~pre.dir /\ pre.tar) =>
              /\ "wget" \notin Range(IssuedNow)
              /\ ConstructionEnded => IssuedNow = <<"tar">>
        /\ (~pre.dir /\ ~pre.tar) =>
              /\ IssuedNow \in {<<>>, <<"wget">>, <<"wget", "tar">>}
              /\ ConstructionEnded =>
                    IF cache_cmds[cmds_before + 1].status = 0
                    THEN IssuedNow = <<"wget", "tar">>
                    ELSE IssuedNow = <<"wget">>
        /\ installed_before =>
              /\ IssuedNow = <<>>
              /\ CacheNow = pre
              /\ cresult = "returned"

\* A first construction found an empty cache, downloaded and extracted; a
\* later one has been made and has issued nothing.
C12_Witness ==
    /\ constructed >= 2
    /\ installed_before
    /\ ConstructionEnded
    /\ Len(cache_cmds) = 2
    /\ cache_cmds[1] = [args |-> WgetCmd(DEFAULT_CASSANDRA_STRESS_VERSION), status |-> 0]
    /\ cache_cmds[2] = [args |-> TarCmd, status |-> 0]
    /\ cmds_before = 2
    /\ cassandra_stress_version # DEFAULT_CASSANDRA_STRESS_VERSION

(***************************************************************************)
(* The claims about the failure of a step, in either scenario.             *)
(***************************************************************************)
\* A step of the scenario has exited with a non-zero status.
StepFailed == \E j \in 1..Len(invocations) : invocations[j].status # 0

\* C13: in the write-and-validate scenario and in the HDR logging scenario
\* alike, no two invocations are of the same step (tool, command and
\* keyspace); an invocation that exited non-zero is the last one made; and
\* once a step has failed the scenario has raised: check_hdr_file_valid has
\* not been entered and the scenario is not at its success report.
C13_HardFailure ==
    /\ \A j, k \in 1..Len(invocations) :
          j # k => Summary(invocations)[j] # Summary(invocations)[k]
    /\ \A j \in 1..Len(invocations) :
          invocations[j].status # 0 => j = Len(invocations)
    /\ StepFailed =>
          /\ wpc = "raised"
          /\ hpc = "idle"
          /\ hresult = "none"
          /\ examined = 0

\* The second step of write-and-validate has failed after the first
\* succeeded.
C13_Witness ==
    /\ wpc = "raised"
    /\ Len(invocations) = 2
    /\ invocations[1].status = 0
    /\ invocations[2].status # 0
    /\ CommandOf(invocations[2]) = "read"

\* The write of the HDR logging scenario has failed.
HdrWriteFailed ==
    /\ wpc = "raised"
    /\ Len(invocations) = 1
    /\ invocations[1].status # 0
    /\ ToolOf(invocations[1]) = CqlStressCmd[1]

\* The HDR logging scenario has made its success report.
HdrRunSuccessful == wpc = "successful" /\ hresult = "True"

(***************************************************************************)
(* The claims about the HDR log validator.                                 *)
(***************************************************************************)
\* The row read last is the last data row of the file.
ReadLastRow == examined = LenDataRows

\* A non-blank row cut short: the fields it still has are those of a
\* well-formed row.
TruncatedRow(row) ==
    /\ row # BlankRow
    /\ Len(row) < MinFields
    /\ StartsWith(row[1], TagPrefix)
    /\ \A j \in 2..Len(row) : row[j].num

\* C5: with a valid header, a non-blank row of fewer than 4 fields that is
\* not the last data row makes the result false, and one that is the last
\* data row (cut short, all earlier rows having passed) does not: the result
\* is true.
C5_LastRowExempt ==
    (examined >= 1 /\ cur_row # BlankRow /\ Len(cur_row) < MinFields) =>
        IF ~ReadLastRow
        THEN hpc = "returned" /\ hresult = "False"
        ELSE (/\ TruncatedRow(cur_row)
              /\ (examined = 1 /\ Len(cur_row) >= 2) =>
                     Abs(cur_row[2].val - expected_interval) <= Tolerance)
             => hresult = "True"

\* The first half of C5 alone: a short row that is not the last is rejected.
ShortRowRejected ==
    (examined >= 1 /\ cur_row # BlankRow /\ Len(cur_row) < MinFields /\ ~ReadLastRow)
        => hpc = "returned" /\ hresult = "False"

\* C6: a file of exactly the four valid header lines and no data row is
\* accepted: the result is true.
C6_HeaderOnlyAccepted ==
    (hpc = "returned" /\ file_exists /\ n_lines = NumHeaders /\ header = CanonicalHeader)
        => hresult = "True"

\* C7: with a valid header and well-formed rows the result is true only if
\* the first non-blank row's timestamp is within the tolerance of the
\* expected interval and every later non-blank, non-last row's timestamp is
\* within the tolerance of the previous non-blank row's timestamp plus the
\* expected interval, whatever blank lines there are.
C7_Cadence ==
    (hresult = "True" /\ hist.wellformed) => hist.cadence

\* The same statement for logs whose first data line is not blank.
CadenceWithoutLeadingBlank ==
    (hresult = "True" /\ hist.wellformed /\ ~hist.leading_blank) => hist.cadence

\* C8: the synthetic valid log (the correct header, N >= 1 rows with the tag,
\* at least 4 fields, interval length equal to the expected interval and the
\* k-th timestamp k times the expected interval) is accepted: no row of it
\* is rejected and the result is true.
C8_SyntheticLogValid ==
    (/\ hpc = "returned"
     /\ file_exists
     /\ n_lines > NumHeaders
     /\ header = CanonicalHeader
     /\ hist.synthetic)
        => hresult = "True" /\ examined = LenDataRows

\* C8 witness: a synthetic log of three rows at an expected interval of 0.2 s
\* was read to its end and accepted.
C8_Witness ==
    /\ hpc = "returned"
    /\ hist.synthetic
    /\ expected_interval = 2
    /\ examined = 3
    /\ hresult = "True"

\* One of the first four lines is missing or lacks the substring of its
\* position.
HeaderFails ==
    \E k \in 1..NumHeaders : k > Len(header) \/ expected_headers[k] \notin header[k]

\* C9: when the file is missing, has zero size, or one of its first four
\* lines lacks the required substring of its own position, the result is
\* false and no data row is examined.
C9_HeaderRejected ==
    (~file_exists \/ n_lines = 0 \/ HeaderFails) =>
        /\ examined = 0
        /\ hpc \in {"start", "returned"}
        /\ hpc = "returned" => hresult = "False"

\* C9 witness: the four header lines are all present but permuted, data rows
\* follow, and the file was rejected.
C9_Witness ==
    /\ hpc = "returned"
    /\ file_exists
    /\ n_lines > NumHeaders
    /\ Len(header) = NumHeaders
    /\ Range(header) = Range(CanonicalHeader)
    /\ header # CanonicalHeader
    /\ hresult = "False"
    /\ examined = 0

====
